---- MODULE Spec2Model ----
\* ttydump: a serial (TTY) byte-stream monitor.  The module models
\* src/src/ttydump.c: option resolution (config_opt), the device session
\* (config_tty and the two cleanup labels of main), the read loop with its
\* tee file, the three per-byte formatters and the timestamp tracker.
EXTENDS Integers, Sequences, FiniteSets, TLC

\* ---------------------------------------------------------------- constants
RX_BUFFER_SIZE == 255
DEF_BAUD_RATE == 115200
MIN_COLUMN_WIDTH == 1
DEF_COLUMN_WIDTH == 8
MAX_COLUMN_WIDTH == 128
EXIT_UNLOCKED == 1
EXIT_LOCKED == 2
NANOSECONDS_PER_SECOND == 1000000000

\* ------------------------------------------------------------------- bounds
\* Longest command line (number of getopt options) of the program run.
MaxArgs == 3
\* Bytes fed to a formatter in the formatter specification.
MaxBytes == 5
\* Largest -w argument of the formatter specification's command lines.
MaxWidth == 4
\* Bytes fed in the recorded-stream specification.
MaxTrace == 4
\* Largest chunk one read() returns, and the number of successful reads.
MaxChunk == 2
MaxReads == 2
\* Largest tv_sec of the arguments given to timespec_sub on its own.
MaxSec == 2

\* ------------------------------------------------------------------ helpers
Max2(a, b) == IF a >= b THEN a ELSE b

\* uint8_t conversion of an integer (the casts at option parsing, and the
\* increments of the static byte counters).
U8(n) == n % 256

\* ctype.h in the "C" locale (the program never calls setlocale).
isprint(c) == c >= 32 /\ c <= 126
iscntrl(c) == c <= 31 \/ c = 127

\* One piece of text written to stderr: k is the kind, s the format or the
\* escape sequence, n the number printed (0 when there is none).
Tok(k, s, n) == [k |-> k, s |-> s, n |-> n]

ESC_CLEAR_OUTPUT == Tok("clear", "ESC_CLEAR_OUTPUT", 0)
NEWLINE == Tok("newline", "\\n", 0)
ESC_COLOR_GREEN == Tok("color", "ESC_COLOR_GREEN", 0)
ESC_COLOR_MIDI_NOTE_ON == Tok("color", "ESC_COLOR_MIDI_NOTE_ON", 0)
ESC_COLOR_MIDI_NOTE_OFF == Tok("color", "ESC_COLOR_MIDI_NOTE_OFF", 0)
ESC_COLOR_MIDI_CC == Tok("color", "ESC_COLOR_MIDI_CC", 0)
ESC_COLOR_MIDI_PB == Tok("color", "ESC_COLOR_MIDI_PB", 0)
ESC_COLOR_MIDI_AT == Tok("color", "ESC_COLOR_MIDI_AT", 0)
ESC_COLOR_RESET == Tok("color", "ESC_COLOR_RESET", 0)

\* ---------------------------------------------------------------- time
Timespec(s, ns) == [tv_sec |-> s, tv_nsec |-> ns]

\* (a variant that never borrows a second)
timespec_sub_no_borrow(start, end) ==
    Timespec(end.tv_sec - start.tv_sec, end.tv_nsec - start.tv_nsec)

\* timespec_sub, its result returned instead of stored through a pointer.
timespec_sub(start, end) ==
    IF end.tv_nsec > start.tv_nsec
    THEN Timespec(end.tv_sec - start.tv_sec, end.tv_nsec - start.tv_nsec)
    ELSE IF end.tv_nsec < start.tv_nsec
    THEN Timespec(end.tv_sec - start.tv_sec - 1,
                  NANOSECONDS_PER_SECOND - (start.tv_nsec - end.tv_nsec))
    ELSE Timespec(end.tv_sec - start.tv_sec, 0)

\* timespec_dec followed by printf("%.6f"): the value in seconds rounded to
\* six decimals, kept here as a count of microseconds.
timespec_dec(t) == t.tv_sec * 1000000 + ((t.tv_nsec + 500) \div 1000)

\* ---------------------------------------------------------------- baud
\* The rates every build accepts, with the Linux value of each B constant.
\* (The platform-specific cases of the switch add further rates.)
BaudTable ==
    [r \in {50, 75, 110, 134, 150, 200, 300, 600, 1200, 1800, 2400, 4800,
            9600, 19200, 38400, 57600, 115200, 230400} |->
        CASE r = 50 -> 1 [] r = 75 -> 2 [] r = 110 -> 3 [] r = 134 -> 4
          [] r = 150 -> 5 [] r = 200 -> 6 [] r = 300 -> 7 [] r = 600 -> 8
          [] r = 1200 -> 9 [] r = 1800 -> 10 [] r = 2400 -> 11
          [] r = 4800 -> 12 [] r = 9600 -> 13 [] r = 19200 -> 14
          [] r = 38400 -> 15 [] r = 57600 -> 4097 [] r = 115200 -> 4098
          [] r = 230400 -> 4099]

convert_baud_rate(rate) ==
    IF rate \in DOMAIN BaudTable THEN BaudTable[rate] ELSE 0

\* ---------------------------------------------------------------- options
\* cmd_options_t after memset: every flag 0, both strings NULL (0).
ZeroOpt ==
    [opt_p |-> 0, opt_o |-> 0, opt_w |-> 0, opt_x |-> 0, opt_c |-> 0,
     opt_d |-> 0, opt_z |-> 0, opt_t |-> 0, opt_n |-> 0, opt_s |-> 0,
     opt_a |-> 0, opt_m |-> 0, opt_h |-> 0, opt_b |-> 0,
     val_p |-> 0, val_o |-> 0, val_w |-> 0, val_b |-> 0]

\* app_context_t after memset: no tee stream, tty 0, the mark unset.
ZeroApp == [fd |-> 0, tty |-> 0, ts |-> Timespec(0, 0)]

\* One option of the command line as getopt returns it: the option letter
\* and the number its argument holds (a string argument is an id >= 1).
Arg(o, v) == [o |-> o, v |-> v]

\* The switch of the getopt loop for one flag or valued option.
set_option(opt, a) ==
    CASE a.o = "x" -> [opt EXCEPT !.opt_x = 1]
      [] a.o = "c" -> [opt EXCEPT !.opt_c = 1]
      [] a.o = "d" -> [opt EXCEPT !.opt_d = 1]
      [] a.o = "z" -> [opt EXCEPT !.opt_z = 1]
      [] a.o = "t" -> [opt EXCEPT !.opt_t = 1]
      [] a.o = "n" -> [opt EXCEPT !.opt_n = 1]
      [] a.o = "s" -> [opt EXCEPT !.opt_s = 1]
      [] a.o = "a" -> [opt EXCEPT !.opt_a = 1]
      [] a.o = "m" -> [opt EXCEPT !.opt_m = 1]
      [] a.o = "p" -> [opt EXCEPT !.opt_p = 1, !.val_p = a.v]
      [] a.o = "b" -> [opt EXCEPT !.opt_b = 1, !.val_b = a.v]
      [] a.o = "o" -> [opt EXCEPT !.opt_o = 1, !.val_o = a.v]
      [] a.o = "w" -> [opt EXCEPT !.opt_w = 1, !.val_w = U8(a.v)]
      [] OTHER -> opt

\* The getopt loop: "parsed" when argv is exhausted, "help" when -h returns 0
\* at once, "error" for an unknown option or a missing value.
RECURSIVE parse_options(_, _)
parse_options(opt, argv) ==
    IF argv = <<>> THEN [how |-> "parsed", opt |-> opt]
    ELSE IF Head(argv).o = "h" THEN [how |-> "help", opt |-> opt]
    ELSE IF Head(argv).o = "?" THEN [how |-> "error", opt |-> opt]
    ELSE parse_options(set_option(opt, Head(argv)), Tail(argv))

\* The condition of "Set default output format if invoked without any display
\* options": == binds tighter than |, so the last operand is (opt_m == 0).
no_display_options(opt) ==
    Max2(opt.opt_x, Max2(opt.opt_c, Max2(opt.opt_d, Max2(opt.opt_z,
    Max2(opt.opt_t, Max2(opt.opt_n, Max2(opt.opt_s, Max2(opt.opt_a,
    IF opt.opt_m = 0 THEN 1 ELSE 0)))))))) # 0

default_color(opt) ==
    IF no_display_options(opt) THEN [opt EXCEPT !.opt_c = 1] ELSE opt

\* The checks after the getopt loop, in the order of the code.
resolve_options(o0) ==
    IF o0.opt_p = 0 THEN [rc |-> -1, opt |-> o0]
    ELSE IF o0.opt_a = 1 /\ o0.opt_m = 1 THEN [rc |-> -1, opt |-> o0]
    ELSE
      LET o1 == default_color(o0)
          o2 == [o1 EXCEPT !.val_b = IF o1.opt_b = 1
                                       THEN convert_baud_rate(o1.val_b)
                                       ELSE convert_baud_rate(DEF_BAUD_RATE)]
      IN  IF o2.opt_b = 1 /\ o2.val_b = 0 THEN [rc |-> -1, opt |-> o2]
          ELSE IF o2.opt_m = 0
          THEN IF o2.opt_w = 1
               THEN IF o2.val_w < MIN_COLUMN_WIDTH \/ o2.val_w > MAX_COLUMN_WIDTH
                    THEN [rc |-> -1, opt |-> o2]
                    ELSE [rc |-> 0, opt |-> o2]
               ELSE [rc |-> 0, opt |-> [o2 EXCEPT !.val_w = DEF_COLUMN_WIDTH]]
          ELSE [rc |-> 0, opt |-> o2]

\* config_opt on a command line of options (argc >= 2 is a non-empty argv).
config_opt(argv) ==
    IF argv = <<>> THEN [rc |-> -1, opt |-> ZeroOpt]
    ELSE LET r == parse_options(ZeroOpt, argv)
         IN  CASE r.how = "help" -> [rc |-> 0, opt |-> r.opt]
               [] r.how = "error" -> [rc |-> -1, opt |-> r.opt]
               [] OTHER -> resolve_options(r.opt)

\* ---------------------------------------------------------------- tracker
\* Whether any of -t, -n, -s is set (the guard of every print_timestamp call).
timestamp_flags(opt) == opt.opt_t = 1 \/ opt.opt_n = 1 \/ opt.opt_s = 1

\* (a variant that never seeds the mark)
never_seed_mark(ts, now) == ts

\* "if (app->ts.tv_sec == 0 && app->ts.tv_nsec == 0)": the prior mark is
\* seeded with the current reading while it is unset.
seed_mark(ts, now) == IF ts.tv_sec = 0 /\ ts.tv_nsec = 0 THEN now ELSE ts

\* "Store the current timestamp back to the application context".
store_mark(ts, now) == now

\* print_timestamp with `now` the reading clock_gettime returns.  The result
\* holds the context after the call and the text it printed.
print_timestamp(app, opt, now) ==
    LET abs == IF opt.opt_t = 1
               THEN <<Tok("abs", "%ld: ",
                          now.tv_sec * NANOSECONDS_PER_SECOND + now.tv_nsec)>>
               ELSE <<>>
        delta == opt.opt_n = 1 \/ opt.opt_s = 1
        prior == IF delta THEN seed_mark(app.ts, now) ELSE app.ts
        td == timespec_sub(prior, now)
        dn == IF delta /\ opt.opt_n = 1
              THEN <<Tok("delta_ns", "+%012ld: ",
                         td.tv_sec * NANOSECONDS_PER_SECOND + td.tv_nsec)>>
              ELSE <<>>
        ds == IF delta /\ opt.opt_s = 1
              THEN <<Tok("delta_sec", "%.6f: ", timespec_dec(td))>>
              ELSE <<>>
    IN  [app |-> [app EXCEPT !.ts = store_mark(prior, now)],
         out |-> abs \o dn \o ds,
         calls |-> 1]

\* A guarded call: print_timestamp when `cond` holds, nothing otherwise.
maybe_timestamp(cond, app, opt, now) ==
    IF cond THEN print_timestamp(app, opt, now)
    ELSE [app |-> app, out |-> <<>>, calls |-> 0]

\* ---------------------------------------------------------------- rendering
\* "start a new line or clear output".
line_boundary(opt) == IF opt.opt_x = 1 THEN ESC_CLEAR_OUTPUT ELSE NEWLINE

\* The numeral of the Raw and MIDI formatters.
print_numeral(p, opt) ==
    IF opt.opt_z = 1
    THEN IF opt.opt_d = 1 THEN Tok("byte", "%03d ", p) ELSE Tok("byte", "%02x ", p)
    ELSE IF opt.opt_d = 1 THEN Tok("byte", "%3d ", p) ELSE Tok("byte", "%2x ", p)

\* The escaped numeral of the ASCII formatter, wrapped in color when enabled.
print_escaped(p, opt) ==
    LET num == IF opt.opt_d = 1 THEN Tok("byte", "\\%03d", p)
               ELSE Tok("byte", "\\x%02x", p)
    IN  IF opt.opt_c = 1 THEN <<ESC_COLOR_GREEN, num, ESC_COLOR_RESET>>
        ELSE <<num>>

\* (a variant that wraps one byte late: > for >=)
next_count_late(byte_count, val_w) ==
    IF U8(byte_count + 1) > val_w THEN 0 ELSE U8(byte_count + 1)

\* "byte_count++; if (byte_count >= opt->val_w) byte_count = 0;" on a uint8_t.
next_count(byte_count, val_w) ==
    IF U8(byte_count + 1) >= val_w THEN 0 ELSE U8(byte_count + 1)

\* ---------------------------------------------------------------- raw
\* "Determine if this is a new line".
raw_new_line(byte_count) == byte_count = 0

\* The function-local statics of the formatters at program start:
\* raw_count is print_byte_raw's byte_count; last_char and byte_count are
\* print_byte_ascii's.
ZeroStatics == [raw_count |-> 0, last_char |-> 0, byte_count |-> 0]

\* print_byte_raw: st holds the statics, clk the readings the clock returns
\* to the print_timestamp calls made, in order.
print_byte_raw(p, st, app, opt, clk) ==
    LET new == raw_new_line(st.raw_count)
        r == maybe_timestamp(new /\ timestamp_flags(opt), app, opt, clk[1])
    IN  [st |-> [st EXCEPT !.raw_count = next_count(st.raw_count, opt.val_w)],
         app |-> r.app,
         out |-> (IF new THEN <<line_boundary(opt)>> ELSE <<>>)
                 \o r.out \o <<print_numeral(p, opt)>>,
         calls |-> r.calls]

\* ---------------------------------------------------------------- midi
\* (a variant that tests the wrong bit: *p & 0x40)
midi_status_bit6(p) == (p \div 64) % 2 = 1

\* "Determine if this is a status byte": *p & 0x80.
midi_status(p) == (p \div 128) % 2 = 1

\* (a variant with the note-on and note-off cases exchanged)
midi_color_swapped(p) ==
    LET hi == (p \div 16) * 16
    IN  CASE hi = 144 -> ESC_COLOR_MIDI_NOTE_OFF
          [] hi = 128 -> ESC_COLOR_MIDI_NOTE_ON
          [] hi = 176 -> ESC_COLOR_MIDI_CC
          [] hi = 208 -> ESC_COLOR_MIDI_AT
          [] hi = 224 -> ESC_COLOR_MIDI_PB
          [] OTHER -> ESC_COLOR_RESET

\* The switch on *p & 0xF0.
midi_color(p) ==
    LET hi == (p \div 16) * 16
    IN  CASE hi = 144 -> ESC_COLOR_MIDI_NOTE_ON
          [] hi = 128 -> ESC_COLOR_MIDI_NOTE_OFF
          [] hi = 176 -> ESC_COLOR_MIDI_CC
          [] hi = 208 -> ESC_COLOR_MIDI_AT
          [] hi = 224 -> ESC_COLOR_MIDI_PB
          [] OTHER -> ESC_COLOR_RESET

\* "Color MIDI status bytes if option is enabled".
midi_color_out(p, opt) == IF opt.opt_c = 1 THEN <<midi_color(p)>> ELSE <<>>

\* print_byte_midi (it keeps no static state: st is left as it is).
print_byte_midi(p, st, app, opt, clk) ==
    LET status == midi_status(p)
        r == maybe_timestamp(status /\ timestamp_flags(opt), app, opt, clk[1])
    IN  [st |-> st,
         app |-> r.app,
         out |-> (IF status THEN <<line_boundary(opt)>> ELSE <<>>)
                 \o r.out \o midi_color_out(p, opt) \o <<print_numeral(p, opt)>>,
         calls |-> r.calls]

\* ---------------------------------------------------------------- ascii
\* "(isprint(*p) || iscntrl(*p)) && *p != '\\'": rendered as a character.
ascii_literal(c) == (isprint(c) \/ iscntrl(c)) /\ c # 92

\* (a variant that forgets the control characters)
last_was_unprintable(c) == ~isprint(c) \/ c = 92

\* "(!isprint(last_char) && !iscntrl(last_char)) || last_char == '\\'".
last_was_escaped(c) == (~isprint(c) /\ ~iscntrl(c)) \/ c = 92

\* (a variant that keeps the count across a printable character)
keep_count(byte_count) == byte_count

\* "Reset non-printable byte count if we get a printable character".
reset_count(byte_count) == 0

\* The line-boundary test of the escaped branch: "if (byte_count == 0)".
escaped_new_line(byte_count) == byte_count = 0

\* (a variant that stamps only after a newline)
after_newline_only(last_char) == last_char = 10

\* "(last_char == '\n' || last_char == 0)": the previous byte ended a line,
\* or last_char still holds its initial 0 (as it does after a 0x00 byte).
at_line_start(last_char) == last_char = 10 \/ last_char = 0

\* print_byte_ascii, on its statics last_char and byte_count.
print_byte_ascii(p, st, app, opt, clk) ==
    LET ts == timestamp_flags(opt)
        clear == IF opt.opt_x = 1 /\ st.last_char = 10
                 THEN <<ESC_CLEAR_OUTPUT>> ELSE <<>>
        r1 == maybe_timestamp(ts /\ at_line_start(st.last_char),
                              app, opt, clk[1])
        lit == ascii_literal(p)
        new == IF lit THEN last_was_escaped(st.last_char)
               ELSE escaped_new_line(st.byte_count)
        r2 == maybe_timestamp(new /\ ts, r1.app, opt, clk[r1.calls + 1])
        body == IF lit THEN <<Tok("char", "%c", p)>> ELSE print_escaped(p, opt)
    IN  [st |-> [st EXCEPT !.last_char = p,
                           !.byte_count =
                               IF lit THEN reset_count(st.byte_count)
                               ELSE next_count(st.byte_count, opt.val_w)],
         app |-> r2.app,
         out |-> clear \o r1.out
                 \o (IF new THEN <<line_boundary(opt)>> ELSE <<>>)
                 \o r2.out \o body,
         calls |-> r1.calls + r2.calls]

\* "Print in specified output format": the dispatch of the inner loop.
print_byte(p, st, app, opt, clk) ==
    IF opt.opt_m = 1 THEN print_byte_midi(p, st, app, opt, clk)
    ELSE IF opt.opt_a = 1 THEN print_byte_ascii(p, st, app, opt, clk)
    ELSE print_byte_raw(p, st, app, opt, clk)

\* ---------------------------------------------------------------- state
VARIABLES
    pc,         \* where main is
    argv,       \* the command line, as the options getopt returns
    rc,         \* the latest return code (config_opt, config_tty)
    opt,        \* cmd_options_t
    app,        \* app_context_t
    statics,    \* the formatters' function-local statics
    buffer,     \* the bytes of the latest read
    count,      \* bytes of buffer already processed
    err,        \* the text the latest print_byte call wrote to stderr
    calls,      \* print_timestamp calls the latest print_byte call made
    used,       \* the clock readings those calls got
    mark,       \* the clock reading of the last print_timestamp call before
                \* the latest print_byte call (<<>> when there was none)
    last_p,     \* the byte of the latest print_byte call (-1: none yet)
    prev_p,     \* the byte of the call before it (-1: none)
    nbytes,     \* bytes dispatched to a formatter so far
    fed,        \* the recorded stream: each byte, the text written for it
                \* and print_byte_ascii's byte_count after it
    tee_buf,    \* bytes fwrite put in the tee stream's buffer, not yet flushed
    tee_file,   \* the bytes the tee file holds
    rxd,        \* all bytes read() has returned, in order
    reads,      \* successful reads so far
    sys,        \* the device and tee calls made so far, in order
    sub         \* the arguments of a timespec_sub call and, after it, its
                \* result (<<>> where the call is not looked at alone)

vars == <<pc, argv, rc, opt, app, statics, buffer, count, err, calls, used,
          mark, last_p, prev_p, nbytes, fed, tee_buf, tee_file, rxd, reads, sys,
          sub>>

\* ---------------------------------------------------------------- inputs
\* Readings of CLOCK_REALTIME, as offsets from the time of the first reading
\* of a run: never the epoch itself, and free to step backwards.
ClockValues ==
    {Timespec(0, 999999999), Timespec(1, 0), Timespec(1, 5)}

\* The readings handed to a print_byte call that makes n print_timestamp
\* calls (at most two): one reading for each call, the rest never read.
ClockPairs(n) ==
    {<<c1, c2>> : c1 \in IF n >= 1 THEN ClockValues ELSE {Timespec(1, 0)},
                  c2 \in IF n >= 2 THEN ClockValues ELSE {Timespec(1, 0)}}

\* The options of the program run's command lines.
MainArgs ==
    {Arg("p", 1), Arg("h", 0), Arg("o", 1), Arg("a", 0), Arg("m", 0),
     Arg("s", 0), Arg("b", 12345), Arg("w", 3)}

RECURSIVE SeqsUpTo(_, _)
SeqsUpTo(S, n) ==
    IF n = 0 THEN {<<>>}
    ELSE LET shorter == SeqsUpTo(S, n - 1)
         IN  shorter \cup {Append(q, x) : q \in shorter, x \in S}

\* The bytes a read() of the program run returns.
MainBytes == {65, 144}

Chunks == SeqsUpTo(MainBytes, MaxChunk) \ {<<>>}

\* ---------------------------------------------------------------- main
ZeroHistory ==
    /\ err = <<>>
    /\ calls = 0
    /\ used = <<>>
    /\ mark = <<>>
    /\ last_p = -1
    /\ prev_p = -1
    /\ nbytes = 0
    /\ fed = <<>>
    /\ tee_buf = <<>>
    /\ tee_file = <<>>
    /\ rxd = <<>>
    /\ reads = 0
    /\ sys = <<>>
    /\ sub = <<>>

Init ==
    /\ pc = "config_opt"
    /\ argv \in SeqsUpTo(MainArgs, MaxArgs)
    /\ rc = 0
    /\ opt = ZeroOpt
    /\ app = ZeroApp
    /\ statics = ZeroStatics
    /\ buffer = <<>>
    /\ count = 0
    /\ ZeroHistory

\* main, "Configure options": config_opt, and the return when it fails.
\* The command line is consumed: nothing reads it again.
ConfigOpt ==
    /\ pc = "config_opt"
    /\ LET r == config_opt(argv)
       IN  /\ rc' = r.rc
           /\ opt' = r.opt
           /\ pc' = IF r.rc # 0 THEN "done" ELSE "fopen"
    /\ argv' = <<>>
    /\ app' = ZeroApp
    /\ UNCHANGED <<sub, statics, buffer, count, err, calls, used, mark, last_p,
                   prev_p, nbytes, fed, tee_buf, tee_file, rxd, reads, sys>>

\* main, "Open output file if option is specified".
tee_wanted(o) == o.opt_o = 1 /\ o.val_o # 0

OpenTee ==
    /\ pc = "fopen"
    /\ \/ /\ tee_wanted(opt)
          /\ app' = [app EXCEPT !.fd = 1]
          /\ sys' = Append(sys, "fopen:ok")
          /\ pc' = "config_tty"
          /\ rc' = rc
       \/ /\ tee_wanted(opt)
          /\ sys' = Append(sys, "fopen:fail")
          /\ pc' = "done"
          /\ rc' = -1
          /\ app' = app
       \/ /\ ~tee_wanted(opt)
          /\ pc' = "config_tty"
          /\ UNCHANGED <<app, sys, rc>>
    /\ UNCHANGED <<sub, argv, opt, statics, buffer, count, err, calls, used, mark,
                   last_p, prev_p, nbytes, fed, tee_buf, tee_file, rxd, reads>>

\* config_tty: the calls it makes for each way it can end, and its result.
config_tty(how) ==
    CASE how = "open" ->
           [rc |-> EXIT_UNLOCKED, tty |-> -1, sys |-> <<"open:fail">>]
      [] how = "flock" ->
           [rc |-> EXIT_UNLOCKED, tty |-> 3,
            sys |-> <<"open:ok", "flock:fail">>]
      [] how = "tcgetattr" ->
           [rc |-> EXIT_LOCKED, tty |-> 3,
            sys |-> <<"open:ok", "flock:ok", "tcgetattr:fail">>]
      [] how = "tcsetattr" ->
           [rc |-> EXIT_LOCKED, tty |-> 3,
            sys |-> <<"open:ok", "flock:ok", "tcgetattr:ok", "tcsetattr:fail">>]
      [] OTHER ->
           [rc |-> 0, tty |-> 3,
            sys |-> <<"open:ok", "flock:ok", "tcgetattr:ok", "tcsetattr:ok",
                      "tcflush">>]

\* (variants that send every failure to one label)
after_config_tty_all_locked(r) == IF r = 0 THEN "read" ELSE "exit_locked"

after_config_tty_all_unlocked(r) == IF r = 0 THEN "read" ELSE "exit_unlocked"

\* main, "switch (rc)" after config_tty.
after_config_tty(r) ==
    IF r = 0 THEN "read"
    ELSE IF r = EXIT_UNLOCKED THEN "exit_unlocked" ELSE "exit_locked"

\* main, "Configure tty attributes".  A NULL path (no -p before -h) makes
\* open() fail.
ConfigTty ==
    /\ pc = "config_tty"
    /\ \E how \in {"open", "flock", "tcgetattr", "tcsetattr", "ok"} :
          /\ opt.val_p = 0 => how = "open"
          /\ LET r == config_tty(how)
             IN  /\ rc' = r.rc
                 /\ app' = [app EXCEPT !.tty = r.tty]
                 /\ sys' = sys \o r.sys
                 /\ pc' = after_config_tty(r.rc)
    /\ UNCHANGED <<sub, argv, opt, statics, buffer, count, err, calls, used, mark,
                   last_p, prev_p, nbytes, fed, tee_buf, tee_file, rxd, reads>>

\* The bookkeeping of one print_byte call on byte p with clock readings clk:
\* the formatter's effect on the statics and the tracker, and what is
\* remembered of the call.
Dispatch(p, clk) ==
    LET r == print_byte(p, statics, app, opt, clk)
    IN  /\ statics' = r.st
        /\ app' = r.app
        /\ err' = r.out
        /\ calls' = r.calls
        /\ used' = SubSeq(<<clk[1], clk[2]>>, 1, r.calls)
        /\ mark' = IF calls > 0 THEN <<used[calls]>> ELSE mark
        /\ prev_p' = last_p
        /\ last_p' = p
        /\ nbytes' = nbytes + 1

\* The print_timestamp calls print_byte makes for byte p in the current state
\* (they depend on the flags and the statics, not on the clock).
CallsFor(p) ==
    print_byte(p, statics, app, opt, <<Timespec(1, 0), Timespec(1, 0)>>).calls

\* (a variant that tees only bytes below 0x80)
fwrite_text_only(p, o, a, buf) ==
    IF o.opt_o = 1 /\ a.fd # 0 /\ p < 128 THEN Append(buf, p) ELSE buf

\* "Optionally write binary data to output file": fwrite of one byte.
fwrite(p, o, a, buf) == IF o.opt_o = 1 /\ a.fd # 0 THEN Append(buf, p) ELSE buf

\* fflush(app.fd), and the write-out stdio does by itself when the stream's
\* buffer is full: the buffered bytes go to the file, in order.
fflush(file, buf) == file \o buf

\* (a variant that ends the program at once on an interrupted read)
after_read_eintr_returns(len, eintr) == IF len > 0 THEN "dispatch" ELSE "done"

\* (a variant that reads again after a timeout)
after_read_retries(len, eintr) ==
    IF len > 0 THEN "dispatch"
    ELSE IF len < 0 THEN (IF eintr THEN "exit_locked" ELSE "done")
    ELSE "read"

\* main, the branch on read()'s result: "if (len > 0)" the inner loop;
\* "else if (len < 0)": "goto exit_locked" on EINTR, otherwise "return 0";
\* "else" (timeout) "return 0".
after_read(len, eintr) ==
    IF len > 0 THEN "dispatch"
    ELSE IF len < 0 THEN (IF eintr THEN "exit_locked" ELSE "done")
    ELSE "done"

\* main, the read() of the outer loop and the branch on its result.
Read ==
    /\ pc = "read"
    /\ \/ /\ reads < MaxReads
          /\ \E chunk \in Chunks :
                /\ Len(chunk) <= RX_BUFFER_SIZE - 1
                /\ buffer' = chunk
                /\ rxd' = rxd \o chunk
          /\ count' = 0
          /\ reads' = reads + 1
          /\ sys' = Append(sys, "read:data")
          /\ pc' = after_read(Len(buffer'), FALSE)
       \/ /\ sys' = Append(sys, "read:eintr")
          /\ pc' = after_read(-1, TRUE)
          /\ UNCHANGED <<buffer, rxd, count, reads>>
       \/ /\ sys' = Append(sys, "read:error")
          /\ pc' = after_read(-1, FALSE)
          /\ UNCHANGED <<buffer, rxd, count, reads>>
       \/ /\ sys' = Append(sys, "read:timeout")
          /\ pc' = after_read(0, FALSE)
          /\ UNCHANGED <<buffer, rxd, count, reads>>
    /\ UNCHANGED <<sub, argv, rc, opt, app, statics, err, calls, used, mark, last_p,
                   prev_p, nbytes, fed, tee_buf, tee_file>>

\* main, one pass of the inner loop: the byte goes to the formatter, then to
\* the tee stream; after the last byte of the chunk both streams are flushed.
ProcessByte ==
    /\ pc = "dispatch"
    /\ LET p == buffer[count + 1]
           buf == fwrite(p, opt, app, tee_buf)
       IN  /\ \E clk \in ClockPairs(CallsFor(p)) : Dispatch(p, clk)
           /\ \/ /\ tee_buf' = buf
                 /\ tee_file' = tee_file
              \/ /\ buf # <<>>
                 /\ tee_buf' = <<>>
                 /\ tee_file' = fflush(tee_file, buf)
    /\ count' = count + 1
    /\ pc' = IF count + 1 = Len(buffer) THEN "flush" ELSE "dispatch"
    /\ UNCHANGED <<sub, argv, rc, opt, buffer, fed, rxd, reads, sys>>

\* main, "fflush(stderr); fflush(app.fd);" at the end of the outer loop.
\* The call is made whether or not a tee stream is open: with app.fd NULL it
\* is fflush(NULL), which flushes every open output stream.
Flush ==
    /\ pc = "flush"
    /\ tee_file' = fflush(tee_file, tee_buf)
    /\ tee_buf' = <<>>
    /\ sys' = Append(sys, IF app.fd # 0 THEN "fflush" ELSE "fflush:null")
    /\ pc' = "read"
    /\ UNCHANGED <<sub, argv, rc, opt, app, statics, buffer, count, err, calls,
                   used, mark, last_p, prev_p, nbytes, fed, rxd, reads>>

\* main, label exit_locked: "Remove advisory lock on tty file descriptor".
\* A failed unlock is logged and the code falls through to exit_unlocked.
ExitLocked ==
    /\ pc = "exit_locked"
    /\ \E ok \in BOOLEAN :
          sys' = Append(sys, IF ok THEN "unlock:ok" ELSE "unlock:fail")
    /\ pc' = "exit_unlocked"
    /\ UNCHANGED <<sub, argv, rc, opt, app, statics, buffer, count, err, calls,
                   used, mark, last_p, prev_p, nbytes, fed, tee_buf, tee_file,
                   rxd, reads>>

\* The calls of label exit_unlocked: close(app.tty), then fclose(app.fd).
close_calls(a) ==
    <<IF a.tty >= 0 THEN "close" ELSE "close:badfd",
      IF a.fd # 0 THEN "fclose" ELSE "fclose:null">>

\* main, label exit_unlocked: "Close file descriptors".  fclose writes out
\* what the tee stream still buffers; fclose(NULL) is undefined and may end
\* the process at once.
ExitUnlocked ==
    /\ pc = "exit_unlocked"
    /\ sys' = sys \o close_calls(app)
    /\ tee_file' = fflush(tee_file, tee_buf)
    /\ tee_buf' = <<>>
    /\ \/ pc' = "done"
       \/ /\ app.fd = 0
          /\ pc' = "crashed"
    /\ UNCHANGED <<sub, argv, rc, opt, app, statics, buffer, count, err, calls,
                   used, mark, last_p, prev_p, nbytes, fed, rxd, reads>>

Next ==
    \/ ConfigOpt
    \/ OpenTee
    \/ ConfigTty
    \/ Read
    \/ ProcessByte
    \/ Flush
    \/ ExitLocked
    \/ ExitUnlocked

Spec == Init /\ [][Next]_vars

\* ---------------------------------------------------------------- formatters
\* The formatter specification drives print_byte byte by byte, as the inner
\* loop does, from the configuration config_opt resolves for each command line
\* of a family: -p; no mode or -a, each with no width or a width up to
\* MaxWidth, or -m; and up to two of the flags x, c, t, n, s, or all of t, n,
\* s.  Some more command lines are ended by -h before the width is defaulted
\* or checked.
FlagNames == <<"x", "c", "t", "n", "s">>

FlagSeqs ==
    {<<>>, <<Arg("t", 0), Arg("n", 0), Arg("s", 0)>>}
    \cup {<<Arg(FlagNames[i], 0)>> : i \in 1..5}
    \cup {<<Arg(FlagNames[i], 0), Arg(FlagNames[j], 0)>> :
            i \in 1..5, j \in 1..5}

ModeSeqs ==
    {m \o w : m \in {<<>>, <<Arg("a", 0)>>},
              w \in {<<>>} \cup {<<Arg("w", k)>> : k \in 1..MaxWidth}}
    \cup {<<Arg("m", 0)>>, <<Arg("m", 0), Arg("w", 3)>>}

FmtArgvs ==
    {<<Arg("p", 1)>> \o m \o f : m \in ModeSeqs, f \in FlagSeqs}
    \cup {<<Arg("p", 1)>> \o m \o w \o <<Arg("h", 0)>> :
            m \in {<<>>, <<Arg("a", 0)>>},
            w \in {<<>>, <<Arg("w", 2)>>, <<Arg("w", 255)>>}}

\* The bytes fed: for each mode, values of every kind its formatter tells
\* apart (NUL, newline, a letter, the backslash, a byte above 0x7f; a data
\* byte and a status byte of every color).
FmtBytes(o) ==
    IF o.opt_m = 1 THEN {60, 128, 144, 176, 208, 224, 240}
    ELSE IF o.opt_a = 1 THEN {0, 10, 65, 92, 128}
    ELSE {0, 255}

\* The program at the entry of the read loop with configuration o: options
\* resolved, device opened, locked and configured, nothing read yet.
AtLoopEntry(o) ==
    /\ pc = "feed"
    /\ argv = <<>>
    /\ rc = 0
    /\ opt = o
    /\ app = [ZeroApp EXCEPT !.tty = 3]
    /\ statics = ZeroStatics
    /\ buffer = <<>>
    /\ count = 0
    /\ ZeroHistory

InitFmt ==
    \E a \in FmtArgvs :
        /\ config_opt(a).rc = 0
        /\ AtLoopEntry(config_opt(a).opt)

\* One byte through the active formatter.
Feed ==
    /\ pc = "feed"
    /\ nbytes < MaxBytes
    /\ \E p \in FmtBytes(opt) :
          \E clk \in ClockPairs(CallsFor(p)) : Dispatch(p, clk)
    /\ UNCHANGED <<sub, pc, argv, rc, opt, buffer, count, fed, tee_buf, tee_file,
                   rxd, reads, sys>>

NextFmt == Feed

SpecFmt == InitFmt /\ [][NextFmt]_vars

\* The recorded-stream specification: the ASCII formatter from its initial
\* state, with the default width, with -w 3, and with the width -h leaves
\* unset, keeping every byte fed and the text written for it.
TraceArgvs ==
    {<<Arg("p", 1), Arg("a", 0)>>,
     <<Arg("p", 1), Arg("a", 0), Arg("w", 3)>>,
     <<Arg("p", 1), Arg("a", 0), Arg("x", 0)>>,
     <<Arg("p", 1), Arg("a", 0), Arg("h", 0)>>}

TraceBytes == {0, 1, 65, 66, 128}

InitTrace ==
    \E a \in TraceArgvs :
        /\ config_opt(a).rc = 0
        /\ AtLoopEntry(config_opt(a).opt)

FeedRecorded ==
    /\ pc = "feed"
    /\ nbytes < MaxTrace
    /\ \E p \in TraceBytes :
          \E clk \in ClockPairs(CallsFor(p)) :
             /\ Dispatch(p, clk)
             /\ fed' = Append(fed, [p |-> p, out |-> err',
                                  byte_count |-> statics'.byte_count])
    /\ UNCHANGED <<sub, pc, argv, rc, opt, buffer, count, tee_buf, tee_file, rxd,
                   reads, sys>>

NextTrace == FeedRecorded

SpecTrace == InitTrace /\ [][NextTrace]_vars

\* The option specification: config_opt alone, on command lines of up to
\* MaxArgs options drawn from every flag, -h, an option getopt rejects, and
\* the valued options with an accepted and a rejected argument each.
OptArgs ==
    {Arg(f, 0) : f \in {"x", "c", "d", "z", "t", "n", "s", "a", "m", "h", "?"}}
    \cup {Arg("p", 1), Arg("o", 1), Arg("b", 9600), Arg("b", 12345),
          Arg("w", 3), Arg("w", 200)}

InitOpt ==
    /\ pc = "config_opt"
    /\ argv \in SeqsUpTo(OptArgs, MaxArgs)
    /\ rc = 0
    /\ opt = ZeroOpt
    /\ app = ZeroApp
    /\ statics = ZeroStatics
    /\ buffer = <<>>
    /\ count = 0
    /\ ZeroHistory

NextOpt == ConfigOpt

SpecOpt == InitOpt /\ [][NextOpt]_vars

\* The subtraction specification: timespec_sub alone, on every pair of
\* timespecs with tv_sec up to MaxSec and tv_nsec at and next to the ends of
\* its range and in its middle, in either order.
SubTimes ==
    {Timespec(sec, nsec) :
        sec \in 0..MaxSec,
        nsec \in {0, 1, 500000000, 999999998, 999999999}}

InitSub ==
    /\ pc = "timespec_sub"
    /\ sub \in {<<start, end>> : start \in SubTimes, end \in SubTimes}
    /\ argv = <<>>
    /\ rc = 0
    /\ opt = ZeroOpt
    /\ app = ZeroApp
    /\ statics = ZeroStatics
    /\ buffer = <<>>
    /\ count = 0
    /\ err = <<>>
    /\ calls = 0
    /\ used = <<>>
    /\ mark = <<>>
    /\ last_p = -1
    /\ prev_p = -1
    /\ nbytes = 0
    /\ fed = <<>>
    /\ tee_buf = <<>>
    /\ tee_file = <<>>
    /\ rxd = <<>>
    /\ reads = 0
    /\ sys = <<>>

\* One call: "timespec_sub(&app->ts, &ts, &td)".
TimespecSub ==
    /\ pc = "timespec_sub"
    /\ sub' = Append(sub, timespec_sub(sub[1], sub[2]))
    /\ pc' = "returned"
    /\ UNCHANGED <<argv, rc, opt, app, statics, buffer, count, err, calls,
                   used, mark, last_p, prev_p, nbytes, fed, tee_buf, tee_file,
                   rxd, reads, sys>>

NextSub == TimespecSub

SpecSub == InitSub /\ [][NextSub]_vars

\* ================================================================ properties
\* Reading the records kept of a run.
Has(q, S) == \E i \in 1..Len(q) : q[i] \in S

Ended == pc \in {"done", "crashed"}

ReadCalls == {"read:data", "read:eintr", "read:error", "read:timeout"}
UnlockCalls == {"unlock:ok", "unlock:fail"}
AttrCalls ==
    {"tcgetattr:ok", "tcgetattr:fail", "tcsetattr:ok", "tcsetattr:fail",
     "tcflush"}

\* The advisory lock is held: a flock succeeded and neither an unlock nor the
\* close of the handle has released it since.
LockHeld ==
    \E i \in 1..Len(sys) :
        /\ sys[i] = "flock:ok"
        /\ \A j \in (i + 1)..Len(sys) : sys[j] \notin {"unlock:ok", "close"}

\* The line boundaries in a text: newlines and screen clears.
RECURSIVE CountKind(_, _)
CountKind(out, K) ==
    IF out = <<>> THEN 0
    ELSE (IF Head(out).k \in K THEN 1 ELSE 0) + CountKind(Tail(out), K)

BoundaryKinds == {"newline", "clear"}
StampKinds == {"abs", "delta_ns", "delta_sec"}

\* ---------------------------------------------------------------- C1
\* C1: when a tee file is open, the bytes given to it (written out or still
\* buffered) are exactly the bytes read and processed so far, in order, in
\* every output mode; and whenever main is about to call read(), or has left
\* the loop, the tee file itself holds every byte read and nothing is
\* buffered.
C1_TeeIsReadOrder ==
    app.fd # 0 =>
        /\ tee_file \o tee_buf = SubSeq(rxd, 1, nbytes)
        /\ pc \in {"read", "exit_locked"} => tee_file = rxd /\ tee_buf = <<>>
        /\ (Ended /\ Has(sys, ReadCalls)) => tee_file = rxd

\* C1 witness: MIDI mode, two chunks read and teed, a status byte among them,
\* main back at read().
C1_Witness ==
    /\ app.fd # 0
    /\ opt.opt_m = 1
    /\ pc = "read"
    /\ reads = 2
    /\ rxd = <<65, 144, 144>>
    /\ tee_file = rxd

\* ---------------------------------------------------------------- C9
\* C9: once the non-blocking lock has failed, the program never reads or
\* writes the line attributes, never flushes the line, never attempts an
\* unlock and never reads; it holds no lock, and by the time it ends it has
\* closed the handle it opened, exactly once.
C9_NeverLocked ==
    Has(sys, {"flock:fail"}) =>
        /\ ~Has(sys, AttrCalls \cup UnlockCalls \cup ReadCalls)
        /\ ~LockHeld
        /\ pc \in {"exit_unlocked", "done", "crashed"}
        /\ Ended => Cardinality({i \in 1..Len(sys) : sys[i] = "close"}) = 1

\* C9 witness: a run that ended after the lock failed.
C9_Witness ==
    /\ Has(sys, {"flock:fail"})
    /\ Has(sys, {"close"})
    /\ Ended

\* ---------------------------------------------------------------- C10
\* C10: once tcgetattr or tcsetattr has failed (the lock is then held), the
\* program never reads, and before it ends it attempts the unlock and then
\* closes the handle, in that order.
C10_LockedFailure ==
    Has(sys, {"tcgetattr:fail", "tcsetattr:fail"}) =>
        /\ Has(sys, {"flock:ok"})
        /\ ~Has(sys, ReadCalls)
        /\ pc \in {"exit_locked", "exit_unlocked", "done", "crashed"}
        /\ pc # "exit_locked" => Has(sys, UnlockCalls)
        /\ Ended =>
              \E i, j \in 1..Len(sys) :
                  /\ i < j
                  /\ sys[i] \in UnlockCalls
                  /\ sys[j] = "close"
                  /\ Cardinality({k \in 1..Len(sys) : sys[k] \in UnlockCalls}) = 1
                  /\ Cardinality({k \in 1..Len(sys) : sys[k] = "close"}) = 1

\* C10 witness: tcsetattr failed, the unlock attempt failed too, and the
\* handle was still closed.
C10_Witness ==
    /\ Has(sys, {"tcsetattr:fail"})
    /\ Has(sys, {"unlock:fail"})
    /\ sys[Len(sys) - 1] = "close"
    /\ Ended

\* ---------------------------------------------------------------- formatter claims
RawMode == opt.opt_m = 0 /\ opt.opt_a = 0
AsciiMode == opt.opt_m = 0 /\ opt.opt_a = 1
MidiMode == opt.opt_m = 1

\* A byte has been dispatched: err is the text written for byte last_p.
Fed == last_p # -1

\* The boundary the flags ask for: a newline, or a clear in single-line mode.
WantedBoundary == IF opt.opt_x = 1 THEN "clear" ELSE "newline"

\* The ASCII formatter's extra clear after a '\n' in single-line mode, which
\* is written whatever the byte is and is no line boundary of its own.
ReClears(prev, o) ==
    IF o.opt_a = 1 /\ o.opt_m = 0 /\ o.opt_x = 1 /\ prev = 10 THEN 1 ELSE 0

\* Line boundaries written for a byte whose predecessor was prev.
Boundaries(out, prev, o) == CountKind(out, BoundaryKinds) - ReClears(prev, o)

\* A byte the ASCII formatter renders as an escaped numeral: in the C locale
\* the bytes above 0x7f, and the backslash.
Escaped(b) == b >= 128 \/ b = 92

\* ---------------------------------------------------------------- C2
\* C2: Raw formatter, width in 1..128: byte number k (from 0) is preceded by
\* one line boundary (a newline, or a clear in single-line mode) when k is a
\* multiple of the width and by none otherwise; the column counter stays in
\* 0..width-1 and equals the number of bytes printed modulo the width.
C2_RawBoundaryEveryWidth ==
    (RawMode /\ Fed /\ opt.val_w \in 1..128) =>
        /\ Boundaries(err, prev_p, opt) =
              (IF (nbytes - 1) % opt.val_w = 0 THEN 1 ELSE 0)
        /\ \A i \in 1..Len(err) :
              err[i].k \in BoundaryKinds => i = 1 /\ err[i].k = WantedBoundary
        /\ statics.raw_count \in 0..(opt.val_w - 1)
        /\ statics.raw_count = nbytes % opt.val_w

\* C2 witness: width 4, the fifth byte (number 4) just printed after a
\* boundary.
C2_Witness ==
    /\ RawMode
    /\ opt.val_w = 4
    /\ nbytes = 5
    /\ err[1].k = "newline"
    /\ statics.raw_count = 1

\* ---------------------------------------------------------------- C3
\* C3: ASCII formatter: when the byte before was rendered literally and this
\* one is escaped, or the other way round, a line boundary is written before
\* this byte, whatever the width and the escaped-run counter.
C3_CategorySwitchBoundary ==
    (AsciiMode /\ Fed /\ prev_p # -1 /\ Escaped(prev_p) # Escaped(last_p)) =>
        /\ Boundaries(err, prev_p, opt) = 1
        /\ \E i \in 1..Len(err) :
              /\ err[i].k = WantedBoundary
              /\ \A j \in 1..i : err[j].k \notin {"char", "byte"}
              /\ \E j \in (i + 1)..Len(err) : err[j].k \in {"char", "byte"}

\* C3 witness: a backslash (escaped) right after a letter, with width 2 and a
\* boundary written.
C3_Witness ==
    /\ AsciiMode
    /\ opt.val_w = 2
    /\ prev_p = 65
    /\ last_p = 92
    /\ nbytes >= 4
    /\ Boundaries(err, prev_p, opt) = 1

\* ---------------------------------------------------------------- C6
\* C6: MIDI formatter: a line boundary is written before a byte exactly when
\* the byte has its high bit set; the boundary comes first and is followed at
\* once by the timestamp text exactly when one of -t, -n, -s is set.  A data
\* byte writes no boundary and no timestamp and leaves the tracker's mark as
\* the last call left it.
C6_MidiStatusBoundary ==
    (MidiMode /\ Fed) =>
        LET status == last_p >= 128
            stamps == CountKind(err, StampKinds)
        IN  /\ CountKind(err, BoundaryKinds) = (IF status THEN 1 ELSE 0)
            /\ status => err[1].k = WantedBoundary
            /\ calls = (IF status /\ timestamp_flags(opt) THEN 1 ELSE 0)
            /\ stamps = calls * (opt.opt_t + opt.opt_n + opt.opt_s)
            /\ \A i \in 1..Len(err) :
                  err[i].k \in StampKinds => i >= 2 /\ i <= 1 + stamps
            /\ ~status =>
                  /\ used = <<>>
                  /\ app.ts = (IF mark = <<>> THEN Timespec(0, 0) ELSE mark[1])

\* C6 witness: a data byte (0x3C) right after a timestamped status byte.
C6_Witness ==
    /\ MidiMode
    /\ opt.opt_s = 1
    /\ prev_p = 144
    /\ last_p = 60
    /\ mark # <<>>
    /\ CountKind(err, BoundaryKinds) = 0

\* ---------------------------------------------------------------- C7
\* The color the upper nibble selects.
NibbleColor(b) ==
    IF b \in 144..159 THEN "ESC_COLOR_MIDI_NOTE_ON"
    ELSE IF b \in 128..143 THEN "ESC_COLOR_MIDI_NOTE_OFF"
    ELSE IF b \in 176..191 THEN "ESC_COLOR_MIDI_CC"
    ELSE IF b \in 208..223 THEN "ESC_COLOR_MIDI_AT"
    ELSE IF b \in 224..239 THEN "ESC_COLOR_MIDI_PB"
    ELSE "ESC_COLOR_RESET"

\* The color sequences in a text, in order.
Colors(out) == SelectSeq(out, LAMBDA t : t.k = "color")

\* C7 as stated: in every resolved configuration that selects MIDI mode,
\* every byte is rendered in the color its upper nibble selects.
C7_AlwaysColored ==
    (MidiMode /\ Fed) =>
        /\ Len(Colors(err)) = 1
        /\ Colors(err)[1].s = NibbleColor(last_p)

\* C7, amended: in MIDI mode with color enabled in the resolved configuration
\* (opt_c set, by -c or by the default), the numeral of every byte is
\* preceded by exactly one color sequence, the one its upper nibble selects;
\* with color off no color sequence is written.
C7_ColoredWhenEnabled ==
    (MidiMode /\ Fed) =>
        IF opt.opt_c = 1
        THEN /\ Len(Colors(err)) = 1
             /\ Colors(err)[1].s = NibbleColor(last_p)
             /\ err[Len(err) - 1].k = "color"
             /\ err[Len(err)].k = "byte"
             /\ err[Len(err)].n = last_p
        ELSE Colors(err) = <<>>

\* C7 witness: color on, a note-on status byte (0x90) rendered after a data
\* byte.
C7_Witness ==
    /\ MidiMode
    /\ opt.opt_c = 1
    /\ prev_p = 60
    /\ last_p = 144
    /\ Colors(err) = <<ESC_COLOR_MIDI_NOTE_ON>>

\* ---------------------------------------------------------------- C8
\* Nanoseconds of a reading, and the clock readings of the latest print_byte
\* call preceded by the reading of the call before them (when there was one).
ToNs(t) == t.tv_sec * NANOSECONDS_PER_SECOND + t.tv_nsec

Readings == mark \o used

\* The delta the k-th print_timestamp call of the latest print_byte call has
\* to report: zero for the first call of the run, else its reading minus the
\* reading of the call before it.
DueDelta(k) ==
    IF Len(mark) + k = 1 THEN 0
    ELSE ToNs(Readings[Len(mark) + k]) - ToNs(Readings[Len(mark) + k - 1])

Numbers(out, kind) ==
    LET sel == SelectSeq(out, LAMBDA t : t.k = kind)
    IN  [i \in 1..Len(sel) |-> sel[i].n]

\* C8: with a delta flag enabled, the first print_timestamp call of a run
\* reports a delta of zero whatever the clock reads; every later call reports
\* its reading minus the reading of the call before it (not negative when the
\* clock did not step back), in nanoseconds (-n) and, rounded to six
\* decimals, in seconds (-s); and every call, delta flag or not, leaves its
\* own reading as the mark.
C8_TrackerDelta ==
    (Fed /\ calls > 0) =>
        /\ app.ts = used[calls]
        /\ opt.opt_n = 1 =>
              Numbers(err, "delta_ns") = [k \in 1..calls |-> DueDelta(k)]
        /\ opt.opt_s = 1 =>
              Numbers(err, "delta_sec") =
                  [k \in 1..calls |-> (DueDelta(k) + 500) \div 1000]
        /\ opt.opt_t = 1 =>
              Numbers(err, "abs") = [k \in 1..calls |-> ToNs(used[k])]
        /\ \A k \in 1..calls :
              (Len(mark) + k > 1
                 /\ ToNs(Readings[Len(mark) + k])
                      >= ToNs(Readings[Len(mark) + k - 1]))
              => DueDelta(k) >= 0

\* C8 witness: the first byte of an ASCII run makes the first two calls of the
\* run: the first reports 0 at a clock reading of 0.999999999 s, the second,
\* one nanosecond later across a second boundary, reports 1.
C8_Witness ==
    /\ opt.opt_n = 1
    /\ mark = <<>>
    /\ used = <<Timespec(0, 999999999), Timespec(1, 0)>>
    /\ Numbers(err, "delta_ns") = <<0, 1>>
    /\ app.ts = Timespec(1, 0)

\* ---------------------------------------------------------------- C4, C5
\* The bytes of the recorded stream, the line boundaries written before each
\* of them, and the escaped-run counter after each.
FedBytes == [i \in 1..Len(fed) |-> fed[i].p]

BoundariesBefore(i) ==
    Boundaries(fed[i].out, IF i = 1 THEN -1 ELSE fed[i - 1].p, opt)

FedBoundaries == [i \in 1..Len(fed) |-> BoundariesBefore(i)]

FedCounts == [i \in 1..Len(fed) |-> fed[i].byte_count]

\* C4 as stated: from the initial state with width 8, the bytes 'A', 0x01, 'B'
\* get a line boundary before 0x01 and another before 'B', and byte_count is 0
\* after each of the two letters.
C4_BoundaryAtControlByte ==
    (AsciiMode /\ opt.val_w = 8 /\ FedBytes = <<65, 1, 66>>) =>
        /\ BoundariesBefore(2) >= 1
        /\ BoundariesBefore(3) >= 1
        /\ fed[1].byte_count = 0
        /\ fed[3].byte_count = 0

\* C4, amended: from the initial state with width 8, 'A', then a byte that is
\* rendered as an escaped numeral (0x80), then 'B' get one line boundary
\* before the escaped byte and one before 'B', none before 'A', and byte_count
\* is 0 after each letter.  0x01 is a control character: it is rendered
\* literally, and 'A', 0x01, 'B' get no line boundary at all.
C4_BoundaryAtEscapedByte ==
    (AsciiMode /\ opt.val_w = 8) =>
        /\ FedBytes = <<65, 128, 66>> =>
              /\ FedBoundaries = <<0, 1, 1>>
              /\ FedCounts = <<0, 1, 0>>
        /\ FedBytes = <<65, 1, 66>> =>
              /\ FedBoundaries = <<0, 0, 0>>
              /\ FedCounts = <<0, 0, 0>>

\* C4 witness: 'A', 0x80, 'B' fed with width 8, boundaries before the last two.
C4_Witness ==
    /\ AsciiMode
    /\ opt.val_w = 8
    /\ opt.opt_x = 0
    /\ FedBytes = <<65, 128, 66>>
    /\ fed[2].out[1] = NEWLINE
    /\ fed[3].out[1] = NEWLINE

\* C5 as stated: from the initial state with width 3, a fourth 0x00 byte after
\* three 0x00 bytes gets a line boundary.
C5_WrapAtNulBytes ==
    (AsciiMode /\ opt.val_w = 3 /\ FedBytes = <<0, 0, 0, 0>>) =>
        BoundariesBefore(4) >= 1

\* C5, amended: from the initial state with width 3, four consecutive bytes
\* that are rendered as escaped numerals (0x80) get a line boundary before the
\* first and before the fourth, and none before the second and third.  0x00 is
\* a control character, rendered literally: four 0x00 bytes get no line
\* boundary and leave the run counter at 0.
C5_WrapAtEscapedBytes ==
    (AsciiMode /\ opt.val_w = 3) =>
        /\ FedBytes = <<128, 128, 128, 128>> =>
              /\ FedBoundaries = <<1, 0, 0, 1>>
              /\ FedCounts = <<1, 2, 0, 1>>
        /\ FedBytes = <<0, 0, 0, 0>> =>
              /\ FedBoundaries = <<0, 0, 0, 0>>
              /\ FedCounts = <<0, 0, 0, 0>>

\* C5 witness: the fourth 0x80 fed with width 3, written after a newline.
C5_Witness ==
    /\ AsciiMode
    /\ opt.val_w = 3
    /\ FedBytes = <<128, 128, 128, 128>>
    /\ fed[4].out[1] = NEWLINE

\* ---------------------------------------------------------------- cleanup
\* The calls made after the i-th one.
After(i) == SubSeq(sys, i + 1, Len(sys))

\* C11: when read() fails with EINTR the program leaves the loop through
\* label exit_locked: the next call is the attempt to release the lock, the
\* one after it the close of the device handle, whether the unlock succeeded
\* or failed, and the program does not end before both were made.
C11_InterruptedReadCleanup ==
    \A i \in 1..Len(sys) :
        sys[i] = "read:eintr" =>
            /\ pc \in {"exit_locked", "exit_unlocked", "done", "crashed"}
            /\ pc = "exit_locked" <=> After(i) = <<>>
            /\ pc = "exit_unlocked" <=>
                   (Len(After(i)) = 1 /\ After(i)[1] \in UnlockCalls)
            /\ Ended => /\ Len(After(i)) >= 2
                        /\ After(i)[1] \in UnlockCalls
                        /\ After(i)[2] = "close"

\* An interrupted read whose unlock attempt failed and whose handle was closed.
C11_Witness ==
    /\ Ended
    /\ \E i \in 1..Len(sys) :
          /\ sys[i] = "read:eintr"
          /\ Len(After(i)) >= 2
          /\ After(i)[1] = "unlock:fail"
          /\ After(i)[2] = "close"

\* The number of calls of the kinds S made so far.
Calls(S) == Len(SelectSeq(sys, LAMBDA c : c \in S))

Opened == Has(sys, {"open:ok"})

\* The parts of the device session's lifecycle: a handle that was opened is
\* closed exactly once by the time the program ends; close is never called
\* on a handle that was not opened; the lock is released only if acquired.
ClosedOnceIfOpened ==
    /\ Calls({"close"}) <= 1
    /\ (Ended /\ Opened) => Calls({"close"}) = 1

NoCloseUnlessOpened ==
    /\ ~Has(sys, {"close:badfd"})
    /\ Has(sys, {"close"}) => Opened

UnlockOnlyIfLocked == Has(sys, UnlockCalls) => Has(sys, {"flock:ok"})

\* C12: on every path by which the program ends, the device handle is closed
\* exactly once if the device was opened, close is never attempted on a
\* handle that was not opened, and the lock release is attempted only if the
\* lock had been acquired.
C12_SessionLifecycle ==
    /\ ClosedOnceIfOpened
    /\ NoCloseUnlessOpened
    /\ UnlockOnlyIfLocked

\* ---------------------------------------------------------------- options
\* The rate constants of convert_baud_rate's table.
SupportedRates == {BaudTable[r] : r \in DOMAIN BaudTable}

\* Option resolution is over and -b named a rate that is not in the table
\* (val_b holds the number given, or the 0 convert_baud_rate made of it).
UnsupportedBaudGiven ==
    /\ pc # "config_opt"
    /\ opt.opt_b = 1
    /\ opt.val_b \notin SupportedRates

\* C13: when an unsupported baud rate is given, option resolution fails with
\* a configuration error and the program ends before the tee file is opened
\* and before the device is opened, locked or has an attribute read or
\* written.
C13_UnsupportedBaudStopsEarly ==
    UnsupportedBaudGiven => (rc # 0 /\ pc = "done" /\ sys = <<>>)

\* The same for the command lines that reach the baud check (on them val_b
\* is what convert_baud_rate returned; -h returns before the conversion).
BaudErrorWithoutHelp ==
    (UnsupportedBaudGiven /\ opt.val_b = convert_baud_rate(12345)) =>
        (rc # 0 /\ pc = "done" /\ sys = <<>>)

\* Option o is on the command line.
Given(o) == \E i \in 1..Len(argv) : argv[i].o = o

DisplayFlags == {"x", "c", "d", "z", "t", "n", "s", "a", "m"}

\* config_opt runs its checks to the end (no -h) and returns 0.
Resolves == pc = "config_opt" /\ pc' = "fopen" /\ ~Given("h")

\* C14: after option resolution color is on if and only if -c was given or
\* no display flag (x, c, d, z, t, n, s, a, m) was given at all: any single
\* display flag alone suppresses the default.
C14_AutoColorIffNoDisplayFlag ==
    [][Resolves =>
          (opt'.opt_c = 1 <=>
              (Given("c") \/ \A f \in DisplayFlags : ~Given(f)))]_vars

\* What the condition of lines 531-532 computes instead: color stays off
\* only when -m is given with none of x, c, d, z, t, n, s.
ColorOffOnlyForBareMidi ==
    [][Resolves =>
          (opt'.opt_c = 0 <=>
              (Given("m") /\ \A f \in DisplayFlags \ {"m", "a"} : ~Given(f)))]_vars

\* ---------------------------------------------------------------- ascii stamps
\* The options -t, -n, -s that are set: the texts one print_timestamp call
\* writes.
StampsPerCall == opt.opt_t + opt.opt_n + opt.opt_s

\* The position of the last boundary text written for the latest byte.
LastBoundary ==
    CHOOSE i \in 1..Len(err) :
        /\ err[i].k \in BoundaryKinds
        /\ \A j \in (i + 1)..Len(err) : err[j].k \notin BoundaryKinds

StampedAfterNul ==
    /\ AsciiMode
    /\ StampsPerCall > 0
    /\ nbytes > 1
    /\ prev_p = 0
    /\ last_p = 128
    /\ calls = 2

\* ---------------------------------------------------------------- escaped runs
\* The position of the i-th recorded byte in its maximal run of escaped
\* bytes, counting from 0: the escaped bytes directly before it.
RECURSIVE RunIndex(_)
RunIndex(i) ==
    IF i = 1 \/ ~Escaped(fed[i - 1].p) THEN 0 ELSE 1 + RunIndex(i - 1)

MultipleOf(n, w) == \E k \in 0..n : n = k * w

\* The rule of the escaped run, for the recorded stream.
RunWraps ==
    \A i \in 1..Len(fed) :
        /\ Escaped(fed[i].p) =>
              (BoundariesBefore(i) >= 1 <=> MultipleOf(RunIndex(i), opt.val_w))
        /\ ~Escaped(fed[i].p) => fed[i].byte_count = 0
        /\ fed[i].byte_count \in 0..(opt.val_w - 1)

\* C16: in a maximal run of escaped bytes the ASCII formatter writes a line
\* boundary before the i-th byte of the run (from 0) if and only if i is a
\* multiple of the width; byte_count is 0 after every literal byte and stays
\* in 0..width-1.
C16_EscapedRunWrap == AsciiMode => RunWraps

\* The same for the widths config_opt's validation lets through.
RunWrapsForValidWidth ==
    (AsciiMode /\ opt.val_w \in MIN_COLUMN_WIDTH..MAX_COLUMN_WIDTH) => RunWraps

\* A run wrapped at its fourth byte with -w 3.
RunWrapReached ==
    /\ opt.val_w = 3
    /\ FedBytes = <<128, 128, 128, 128>>
    /\ FedBoundaries = <<1, 0, 0, 1>>

\* ---------------------------------------------------------------- tee absence
\* No tee path is configured (option resolution is over).
NoTee == pc # "config_opt" /\ ~tee_wanted(opt)

\* Nothing is written to a tee stream that is absent.
NoTeeNoWrite == NoTee => (tee_buf = <<>> /\ tee_file = <<>>)

\* C17: when no tee path is configured, no write, flush or close is issued
\* on the tee handle, in the read loop or in the cleanup.
C17_NoTeeCallsWithoutTee ==
    NoTee =>
        /\ tee_buf = <<>>
        /\ tee_file = <<>>
        /\ ~Has(sys, {"fflush", "fflush:null", "fclose", "fclose:null"})

\* ---------------------------------------------------------------- read loop
\* The results of the read() calls made so far, in order.
ReadResults == SelectSeq(sys, LAMBDA c : c \in ReadCalls)

NonPositive == {"read:eintr", "read:error", "read:timeout"}

\* C18: every read but the latest returned a positive length; a read that
\* times out or fails other than by interruption is the last call the
\* program makes: it ends at once, every byte read before is processed and
\* none after; and once in the loop, main has left it exactly when a read
\* has returned a non-positive result.
C18_ReadLoopTermination ==
    /\ \A i \in 1..(Len(ReadResults) - 1) : ReadResults[i] = "read:data"
    /\ Has(sys, {"read:error", "read:timeout"}) =>
          /\ pc = "done"
          /\ sys[Len(sys)] \in {"read:error", "read:timeout"}
          /\ nbytes = Len(rxd)
          /\ app.fd # 0 => (tee_file = rxd /\ tee_buf = <<>>)
    /\ Has(sys, {"tcflush"}) =>
          (pc \in {"exit_locked", "exit_unlocked", "done", "crashed"}
              <=> Has(sys, NonPositive))

\* A timeout after a read that returned bytes: the program has ended, the
\* timeout being its last call.
C18_Witness ==
    /\ pc = "done"
    /\ Len(ReadResults) = 2
    /\ ReadResults[1] = "read:data"
    /\ sys[Len(sys)] = "read:timeout"
    /\ nbytes = Len(rxd)
    /\ nbytes > 0

\* ---------------------------------------------------------------- timespec_sub
\* Timespec a is not later than b.
NotLater(a, b) ==
    a.tv_sec < b.tv_sec \/ (a.tv_sec = b.tv_sec /\ a.tv_nsec <= b.tv_nsec)

NsecRange == 0..(NANOSECONDS_PER_SECOND - 1)

\* res.sec * 10^9 + res.nsec = (end.sec * 10^9 + end.nsec)
\*                             - (start.sec * 10^9 + start.nsec),
\* with the seconds collected on one side and the nanoseconds on the other
\* (the totals themselves do not fit the 32-bit integers of TLC).
SameTotal(start, end, res) ==
    (res.tv_sec - (end.tv_sec - start.tv_sec)) * NANOSECONDS_PER_SECOND
        = (end.tv_nsec - start.tv_nsec) - res.tv_nsec

\* C19: for start and end with nanosecond fields in 0..999999999 and end not
\* earlier than start, timespec_sub's result has a nanosecond field in
\* 0..999999999 and a non-negative second field, and its total in
\* nanoseconds is end's total minus start's.
C19_TimespecSubExact ==
    (pc = "returned"
        /\ sub[1].tv_nsec \in NsecRange
        /\ sub[2].tv_nsec \in NsecRange
        /\ NotLater(sub[1], sub[2])) =>
            /\ sub[3].tv_nsec \in NsecRange
            /\ sub[3].tv_sec >= 0
            /\ SameTotal(sub[1], sub[2], sub[3])

\* A subtraction that borrows a second: 1.000000001 - 0.999999999.
C19_Witness ==
    /\ pc = "returned"
    /\ sub = <<Timespec(0, 999999999), Timespec(1, 1), Timespec(0, 2)>>

\* ---------------------------------------------------------------- configuration
\* config_opt has returned 0 and main is on its way to, or in, the read loop.
ConfigAccepted == pc \in {"fopen", "config_tty", "read", "dispatch", "flush"}

ValidConfig(o) ==
    o.opt_m = 0 =>
        /\ o.val_w \in MIN_COLUMN_WIDTH..MAX_COLUMN_WIDTH
        /\ o.val_b \in SupportedRates

\* C20: on every path on which config_opt returns 0, the -h path included,
\* when MIDI mode is not active the column width is in 1..128 and the baud
\* value is a rate constant of the table.
C20_ConfigInvariant == ConfigAccepted => ValidConfig(opt)

\* The same for the command lines without -h, as config_opt leaves them.
ResolvedConfigValid == [][Resolves => ValidConfig(opt')]_vars

\* ---------------------------------------------------------------- one stamp
\* One byte gets at most one print_timestamp call and the texts of one call.
OneStampPerByte ==
    /\ calls <= 1
    /\ CountKind(err, StampKinds) <= StampsPerCall

\* C21: in every output mode, processing one byte calls the tracker at most
\* once, so at most one timestamp prefix is written for the byte; in ASCII
\* mode also when the previous byte was '\n' or the byte is the first one
\* and the byte causes a line boundary as well.
C21_AtMostOneStampPerByte == Fed => OneStampPerByte

\* The same for the Raw and MIDI formatters alone.
OneStampOutsideAscii == (Fed /\ ~AsciiMode) => OneStampPerByte

\* The first byte, escaped, stamped twice by the ASCII formatter: once as the
\* first byte and once more at the boundary that starts its run.
FirstByteStampedTwice ==
    /\ AsciiMode
    /\ StampsPerCall > 0
    /\ nbytes = 1
    /\ last_p = 128
    /\ calls = 2
    /\ CountKind(err, StampKinds) = 2 * StampsPerCall

====
